---- MODULE Spec2Model ----
(***************************************************************************)
(* tf-gatekeeper: the blast-radius classifier, the policy validator, the   *)
(* validate pipeline of the tf-gate CLI and the legacy TerraformGatekeeper *)
(* script, as state machines.                                              *)
(*                                                                         *)
(* Specifications:                                                         *)
(*   SpecClassifier  one call of a blast-radius classifier on a plan       *)
(*   SpecPolicy      one call of PolicyValidator.should_block              *)
(*   Spec            one run of `tf-gate validate` (cli.py)                *)
(*   SpecGatekeeper  one run of gatekeeper.py main()                       *)
(*   SpecLive        Spec with weak fairness on its steps                  *)
(*   SpecDrift       one call of ContextEngine.detect_drift                *)
(*   SpecTemporal    one call of ContextEngine.analyze_temporal_context    *)
(*   SpecGatekeeperReuse  analyze_plan twice on one TerraformGatekeeper    *)
(*   SpecValidate    one call of PolicyValidator.validate                  *)
(*   SpecTimeRules   one call of apply_time_based_rules                    *)
(*   SpecDriftRuns   detect_drift run after run in one directory           *)
(*   SpecApply       one run of `tf-gate apply` (validate, then apply)     *)
(***************************************************************************)
EXTENDS Integers, Sequences, FiniteSets, TLC

VARIABLES
    pc,                 \* position of the running entry point
    plan_file,          \* the plan artifact: [status, resource_changes]
    thresholds,         \* blast_radius.thresholds of the configuration
    break_glass,        \* ctx.obj.break_glass
    shadow_mode,        \* ctx.obj.shadow_mode
    strict_mode,        \* opa.strict_mode of the configuration
    commit_message,     \* --commit-message of gatekeeper.py ("" when not given)
    engine,             \* the ContextEngine object's fields
    base_risk,          \* base_risk handed to analyze_temporal_context
    drift_outcome,      \* what the two terraform subprocesses of detect_drift do
    changes,            \* resource changes carried forward by Phase 1
    blast_radius,       \* BlastRadius of the plan
    validation_results, \* Phase 2 result dictionary
    drift_result,       \* context_results["drift_result"]
    temporal,           \* context_results["temporal_context"]
    intent_result,      \* Phase 4 verdict
    should_block,       \* the aggregator's should_block / should_block()[0]
    reasons,            \* the aggregator's reasons / should_block()[1]
    console_reasons,    \* the reasons the decision step printed
    exit_code,          \* what the entry point returns
    failed_phase,       \* "none", or the step whose failure ended the run
    error,              \* the failure that ended the run ("" when none did)
    risks,              \* TerraformGatekeeper.risks
    critical_risks_found, \* TerraformGatekeeper.critical_risks_found
    phase3_warning,     \* the "Phase 3 Warning" validate printed ("" when none)
    error_kind,         \* class of the exception PolicyValidator.validate raised
    drift_tfplan,       \* drift.tfplan in the Terraform directory
    runs,               \* detect_drift calls made so far in that directory
    apply_result,       \* what the apply command did after validate
    opa_run             \* how `opa build` and `opa eval` end, and what eval prints

inputVars == <<plan_file, thresholds, break_glass, shadow_mode, strict_mode,
               commit_message, engine, base_risk, drift_outcome>>
phaseVars == <<changes, blast_radius, validation_results, drift_result, temporal,
               intent_result>>
decisionVars == <<should_block, reasons, console_reasons, exit_code, failed_phase,
                 error>>
gkVars == <<risks, critical_risks_found>>
sideVars == <<phase3_warning, error_kind, drift_tfplan, runs, apply_result, opa_run>>

vars == <<pc, inputVars, phaseVars, decisionVars, gkVars, sideVars>>

(***************************************************************************)
(* Bounds of the model.                                                    *)
(***************************************************************************)
\* longest plan made of arbitrary changes handed to a classifier
MaxMixed == 2
\* longest plan made of non-critical create/delete/replace changes
MaxChanges == 6
\* longest plan of a pipeline run
MaxPlanLen == 2
\* most deny messages the policy engine returns
MaxDeny == 2
\* most resource changes in the refresh-only snapshot handed to detect_drift
MaxSnapLen == 2
\* most risks a gatekeeper holds when apply_time_based_rules is called alone
MaxRisks == 2
\* most runs of detect_drift in one Terraform directory
MaxRuns == 3

(***************************************************************************)
(* Sequences over S of length at most n.                                   *)
(***************************************************************************)
SeqUpTo(S, n) == UNION {[1..k -> S] : k \in 0..n}

SeqToSet(s) == {s[i] : i \in 1..Len(s)}

(***************************************************************************)
(* Blast radius (utils/blast_radius.py, phases/phase1_ingest.py)           *)
(***************************************************************************)
GREEN == "green"
YELLOW == "yellow"
RED == "red"

CRITICAL_RESOURCE_TYPES ==
    {"aws_db_instance", "aws_rds_cluster", "aws_kms_key", "aws_s3_bucket",
     "aws_dynamodb_table", "aws_elasticache_cluster", "aws_redshift_cluster",
     "aws_mq_broker", "aws_docdb_cluster", "aws_neptune_cluster",
     "aws_memorydb_cluster", "aws_qldb_ledger", "azurerm_sql_database",
     "azurerm_sql_server", "azurerm_storage_account", "azurerm_key_vault",
     "azurerm_cosmosdb_account", "google_sql_database_instance",
     "google_storage_bucket", "google_kms_key_ring"}

IngestorCriticalTypes ==
    {"aws_db_instance", "aws_rds_cluster", "aws_kms_key", "aws_s3_bucket",
     "aws_dynamodb_table", "aws_elasticache_cluster", "aws_redshift_cluster",
     "aws_mq_broker", "aws_docdb_cluster", "aws_neptune_cluster",
     "aws_memorydb_cluster", "aws_qldb_ledger"}

\* thresholds = thresholds or {"green": 5, "yellow": 20, "red": 50}
DefaultYellow == 20
DefaultRed == 50
\* destructive_count > 5
DestructiveLimit == 5

EffectiveThresholds(th) ==
    IF th.given THEN [yellow |-> th.yellow, red |-> th.red]
    ELSE [yellow |-> DefaultYellow, red |-> DefaultRed]

\* the if/elif chain that counts a change by action type
ActionCategory(actions) ==
    IF "create" \in actions /\ "delete" \in actions THEN "replace"
    ELSE IF "create" \in actions THEN "create"
    ELSE IF "delete" \in actions THEN "delete"
    ELSE IF "update" \in actions THEN "update"
    ELSE "none"

IsCriticalAffected_NoDelete(resource, critical_types) ==
    /\ resource.type \in critical_types
    /\ "replace" \in resource.actions

\* resource_type in CRITICAL_RESOURCE_TYPES and any(a in actions for a in ["delete", "replace"])
IsCriticalAffected(resource, critical_types) ==
    /\ resource.type \in critical_types
    /\ \E a \in {"delete", "replace"} : a \in resource.actions

EmptyCounts ==
    [total_resources |-> 0, create_count |-> 0, update_count |-> 0,
     delete_count |-> 0, replace_count |-> 0, critical_resources |-> <<>>]

CountStep_DoubleCount(acc, resource, critical_types) ==
    LET actions == resource.actions IN
    [total_resources |-> acc.total_resources + 1,
     create_count |-> acc.create_count + (IF "create" \in actions THEN 1 ELSE 0),
     update_count |-> acc.update_count + (IF "update" \in actions THEN 1 ELSE 0),
     delete_count |-> acc.delete_count + (IF "delete" \in actions THEN 1 ELSE 0),
     replace_count |-> acc.replace_count
                       + (IF "create" \in actions /\ "delete" \in actions THEN 1 ELSE 0),
     critical_resources |->
        IF IsCriticalAffected(resource, critical_types)
        THEN Append(acc.critical_resources, resource.address)
        ELSE acc.critical_resources]

\* one iteration of the loop over the resource changes
CountStep(acc, resource, critical_types) ==
    LET cat == ActionCategory(resource.actions) IN
    [total_resources |-> acc.total_resources + 1,
     create_count |-> acc.create_count + (IF cat = "create" THEN 1 ELSE 0),
     update_count |-> acc.update_count + (IF cat = "update" THEN 1 ELSE 0),
     delete_count |-> acc.delete_count + (IF cat = "delete" THEN 1 ELSE 0),
     replace_count |-> acc.replace_count + (IF cat = "replace" THEN 1 ELSE 0),
     critical_resources |->
        IF IsCriticalAffected(resource, critical_types)
        THEN Append(acc.critical_resources, resource.address)
        ELSE acc.critical_resources]

RECURSIVE CountLoop_BreakOnCritical(_, _, _, _)
CountLoop_BreakOnCritical(resource_changes, i, acc, critical_types) ==
    IF i > Len(resource_changes) \/ acc.critical_resources # <<>> THEN acc
    ELSE CountLoop_BreakOnCritical(resource_changes, i + 1,
                                   CountStep(acc, resource_changes[i], critical_types),
                                   critical_types)

RECURSIVE CountLoop(_, _, _, _)
CountLoop(resource_changes, i, acc, critical_types) ==
    IF i > Len(resource_changes) THEN acc
    ELSE CountLoop(resource_changes, i + 1,
                   CountStep(acc, resource_changes[i], critical_types),
                   critical_types)

DetermineLevel_StrictThreshold(counts, th) ==
    LET destructive_count == counts.delete_count + counts.replace_count IN
    IF \/ counts.total_resources > th.red
       \/ destructive_count > DestructiveLimit
       \/ Len(counts.critical_resources) > 0
    THEN RED
    ELSE IF counts.total_resources > th.yellow \/ destructive_count > 0
    THEN YELLOW
    ELSE GREEN

DetermineLevel_NeverGreen(counts, th) ==
    LET destructive_count == counts.delete_count + counts.replace_count IN
    IF \/ counts.total_resources >= th.red
       \/ destructive_count > DestructiveLimit
       \/ Len(counts.critical_resources) > 0
    THEN RED
    ELSE IF counts.total_resources >= th.yellow \/ destructive_count >= 0
    THEN YELLOW
    ELSE GREEN

\* "Determine level": the if/elif/else on the totals
DetermineLevel(counts, th) ==
    LET destructive_count == counts.delete_count + counts.replace_count IN
    IF \/ counts.total_resources >= th.red
       \/ destructive_count > DestructiveLimit
       \/ Len(counts.critical_resources) > 0
    THEN RED
    ELSE IF counts.total_resources >= th.yellow \/ destructive_count > 0
    THEN YELLOW
    ELSE GREEN

MakeBlastRadius(counts, th) ==
    [level |-> DetermineLevel(counts, th),
     total_resources |-> counts.total_resources,
     create_count |-> counts.create_count,
     update_count |-> counts.update_count,
     delete_count |-> counts.delete_count,
     replace_count |-> counts.replace_count,
     critical_resources |-> counts.critical_resources]

\* utils.blast_radius.calculate_blast_radius(resource_changes, thresholds)
calculate_blast_radius(resource_changes, th) ==
    MakeBlastRadius(CountLoop(resource_changes, 1, EmptyCounts, CRITICAL_RESOURCE_TYPES),
                    EffectiveThresholds(th))

\* PlanIngestor(thresholds).calculate_blast_radius(plan_path)
PlanIngestor_calculate_blast_radius(resource_changes, th) ==
    MakeBlastRadius(CountLoop(resource_changes, 1, EmptyCounts, IngestorCriticalTypes),
                    EffectiveThresholds(th))

NoBlastRadius ==
    [level |-> "unset", total_resources |-> 0, create_count |-> 0,
     update_count |-> 0, delete_count |-> 0, replace_count |-> 0,
     critical_resources |-> <<>>]

(***************************************************************************)
(* Inputs: resource changes, plans, threshold configurations.              *)
(* A resource change is [address, type, actions, after]: address is the    *)
(* dotted address split at the dots, actions the set of the strings of     *)
(* change.actions, after a tag for the planned attributes.                 *)
(***************************************************************************)
Res(address, type, actions, after) ==
    [address |-> address, type |-> type, actions |-> actions, after |-> after]

ActionSets ==
    {{"create"}, {"update"}, {"delete"}, {"delete", "create"}, {"no-op"},
     {"read"}, {"replace"}}

\* critical for both classifiers, critical for utils only, not critical
MixedKinds ==
    {Res(<<t, "main">>, t, a, "plain") :
        t \in {"aws_db_instance", "azurerm_sql_database", "aws_instance"},
        a \in ActionSets}

BulkKinds ==
    {Res(<<"aws_instance", "web">>, "aws_instance", a, "plain") :
        a \in {{"create"}, {"delete"}, {"delete", "create"}}}

ClassifierPlans == SeqUpTo(MixedKinds, MaxMixed) \cup SeqUpTo(BulkKinds, MaxChanges)

\* given = FALSE: thresholds is None (or empty) and the defaults apply
ThresholdConfigs ==
    {[given |-> FALSE, yellow |-> 0, red |-> 0],
     [given |-> TRUE, yellow |-> 2, red |-> 4],
     [given |-> TRUE, yellow |-> 3, red |-> 2]}

PlanOk(resource_changes) == [status |-> "ok", resource_changes |-> resource_changes]

\* RiskLevel, and the defaults of ContextEngine.__init__
RiskLOW == 1
RiskCRITICAL == 4
FridayCutoffHour == 15
AfterHoursStart == 18
AfterHoursEnd == 9

ContextEngine(friday_cutoff_hour, weekend_blocking, after_hours_start, after_hours_end) ==
    [friday_cutoff_hour |-> friday_cutoff_hour,
     weekend_blocking |-> weekend_blocking,
     after_hours_start |-> after_hours_start,
     after_hours_end |-> after_hours_end]

DefaultEngine == ContextEngine(FridayCutoffHour, TRUE, AfterHoursStart, AfterHoursEnd)

\* the subprocesses of detect_drift: how `terraform plan -refresh-only` and
\* `terraform show -json drift.tfplan` end, and the resource_changes of the
\* document that show printed
DriftOutcome(refresh, show, snapshot) ==
    [refresh |-> refresh, show |-> show, snapshot |-> snapshot]

NoOutcome == DriftOutcome("not run", "not run", <<>>)

NoValidation == [deny |-> <<>>, warn |-> <<>>, info |-> <<>>, passed |-> TRUE,
                 has_strict_mode |-> FALSE, strict_mode |-> TRUE]
NoDrift == [has_drift |-> FALSE, drifted_resources |-> <<>>, conflict_resources |-> <<>>]
NoTemporal == [weekday |-> 0, hour |-> 0, is_weekend |-> FALSE, is_after_hours |-> FALSE,
               is_friday_afternoon |-> FALSE, risk_level |-> 0]

\* no drift.tfplan file; the apply command did nothing
NoPlanFile == [exists |-> FALSE, snapshot |-> <<>>]
NotApplied == [ran_terraform |-> FALSE, code |-> -1, stopped_at |-> "not called"]
NoOpaRun == [compile |-> "not run", evaluate |-> "not run",
             output |-> [has_result |-> FALSE, result |-> <<>>]]

IdleSide ==
    /\ phase3_warning = ""
    /\ error_kind = ""
    /\ drift_tfplan = NoPlanFile
    /\ runs = 0
    /\ apply_result = NotApplied
    /\ opa_run = NoOpaRun

\* the variables an entry point does not use keep these values
IdlePipeline ==
    /\ commit_message = ""
    /\ break_glass = FALSE
    /\ shadow_mode = FALSE
    /\ strict_mode = TRUE
    /\ changes = <<>>
    /\ drift_result = NoDrift
    /\ temporal = NoTemporal
    /\ intent_result = "none"
    /\ console_reasons = <<>>
    /\ exit_code = -1
    /\ failed_phase = "none"
    /\ error = ""
    /\ IdleSide

IdleGatekeeper ==
    /\ risks = <<>>
    /\ critical_risks_found = FALSE

IdleEngine ==
    /\ engine = DefaultEngine
    /\ base_risk = RiskLOW
    /\ drift_outcome = NoOutcome

(***************************************************************************)
(* SpecClassifier: one call of either blast-radius implementation.         *)
(***************************************************************************)
InitClassifier ==
    /\ pc = "classifier_call"
    /\ plan_file \in {PlanOk(p) : p \in ClassifierPlans}
    /\ thresholds \in ThresholdConfigs
    /\ blast_radius = NoBlastRadius
    /\ validation_results = NoValidation
    /\ should_block = FALSE
    /\ reasons = <<>>
    /\ IdlePipeline
    /\ IdleGatekeeper
    /\ IdleEngine

CallCalculateBlastRadius ==
    /\ pc = "classifier_call"
    /\ blast_radius' = calculate_blast_radius(plan_file.resource_changes, thresholds)
    /\ pc' = "utils_returned"
    /\ UNCHANGED <<inputVars, changes, validation_results, drift_result, temporal,
                   intent_result, decisionVars, gkVars, sideVars>>

CallIngestorBlastRadius ==
    /\ pc = "classifier_call"
    /\ blast_radius' = PlanIngestor_calculate_blast_radius(plan_file.resource_changes, thresholds)
    /\ pc' = "ingestor_returned"
    /\ UNCHANGED <<inputVars, changes, validation_results, drift_result, temporal,
                   intent_result, decisionVars, gkVars, sideVars>>

NextClassifier == CallCalculateBlastRadius \/ CallIngestorBlastRadius

SpecClassifier == InitClassifier /\ [][NextClassifier]_vars

ClassifierReturned == pc \in {"utils_returned", "ingestor_returned"}

\* the critical types of the implementation that was called
CalledCriticalTypes ==
    IF pc = "utils_returned" THEN CRITICAL_RESOURCE_TYPES ELSE IngestorCriticalTypes

\* C7: the returned level is RED if total_resources >= thresholds.red or
\* delete_count + replace_count > 5 or critical_resources is non-empty, else
\* YELLOW if total_resources >= thresholds.yellow or delete_count +
\* replace_count > 0, else GREEN.
C7_LevelDecision ==
    ClassifierReturned =>
        LET th == EffectiveThresholds(thresholds)
            b == blast_radius
            isRed == \/ b.total_resources >= th.red
                     \/ b.delete_count + b.replace_count > 5
                     \/ b.critical_resources # <<>>
            isYellow == \/ b.total_resources >= th.yellow
                        \/ b.delete_count + b.replace_count > 0
        IN /\ isRed => b.level = RED
           /\ (~isRed /\ isYellow) => b.level = YELLOW
           /\ (~isRed /\ ~isYellow) => b.level = GREEN
           /\ b.total_resources = Len(plan_file.resource_changes)

\* C7 witness: a plan of 6 destructive, non-critical changes below the red
\* threshold was classified RED by the destructive count alone.
C7_Witness ==
    /\ ClassifierReturned
    /\ blast_radius.delete_count + blast_radius.replace_count = 6
    /\ blast_radius.critical_resources = <<>>
    /\ blast_radius.total_resources < EffectiveThresholds(thresholds).red
    /\ blast_radius.level = RED

\* the changes of the plan that delete (or replace) a resource of a critical type
CriticalDeletes ==
    {i \in 1..Len(plan_file.resource_changes) :
        /\ plan_file.resource_changes[i].type \in CalledCriticalTypes
        /\ "delete" \in plan_file.resource_changes[i].actions}

\* C8: every change of a critical type whose actions include delete has its
\* address in critical_resources, and the level is then RED whatever
\* total_resources and the thresholds are.
C8_CriticalDeleteIsRed ==
    ClassifierReturned =>
        \A i \in CriticalDeletes :
            /\ plan_file.resource_changes[i].address
                   \in SeqToSet(blast_radius.critical_resources)
            /\ blast_radius.level = RED

\* C8 witness: a single critical delete, far below every threshold, is RED.
C8_Witness ==
    /\ ClassifierReturned
    /\ CriticalDeletes # {}
    /\ blast_radius.total_resources = 1
    /\ blast_radius.total_resources < EffectiveThresholds(thresholds).yellow
    /\ blast_radius.total_resources < EffectiveThresholds(thresholds).red
    /\ blast_radius.level = RED

\* no change of the plan has delete or replace among its actions
NoDestructiveActions ==
    \A i \in 1..Len(plan_file.resource_changes) :
        /\ "delete" \notin plan_file.resource_changes[i].actions
        /\ "replace" \notin plan_file.resource_changes[i].actions

\* C9 as stated: zero delete/replace actions and total_resources <
\* thresholds.yellow give GREEN for every threshold configuration.
C9_Original ==
    (/\ ClassifierReturned
     /\ NoDestructiveActions
     /\ blast_radius.total_resources < EffectiveThresholds(thresholds).yellow)
        => blast_radius.level = GREEN

\* C9 amended: zero delete/replace actions and total_resources below both
\* thresholds.yellow and thresholds.red give GREEN.
C9_GreenBelowBothThresholds ==
    (/\ ClassifierReturned
     /\ NoDestructiveActions
     /\ blast_radius.total_resources < EffectiveThresholds(thresholds).yellow
     /\ blast_radius.total_resources < EffectiveThresholds(thresholds).red)
        => blast_radius.level = GREEN

\* C9 witness: a non-empty, non-destructive plan under a configuration whose
\* red threshold is not greater than its yellow threshold was classified GREEN.
C9_Witness ==
    /\ ClassifierReturned
    /\ NoDestructiveActions
    /\ thresholds.given
    /\ thresholds.red <= thresholds.yellow
    /\ blast_radius.total_resources = 1
    /\ blast_radius.level = GREEN

\* the changes of the classified plan whose actions satisfy test
ChangesWhere(test(_)) ==
    {i \in 1..Len(plan_file.resource_changes) : test(plan_file.resource_changes[i].actions)}

IsReplace(actions) == "create" \in actions /\ "delete" \in actions
IsCreate(actions) == "create" \in actions /\ "delete" \notin actions
IsDelete(actions) == "delete" \in actions /\ "create" \notin actions
IsUpdate(actions) == "update" \in actions /\ "create" \notin actions /\ "delete" \notin actions

\* C18: each change is counted in at most one of replace, create, delete and
\* update, by the priority replace (create and delete both present), create,
\* delete, update; a {create, delete} change adds 1 to replace_count and
\* nothing to create_count and delete_count; the four counts together never
\* exceed total_resources.
C18_OneCategoryPerChange ==
    ClassifierReturned =>
        /\ blast_radius.replace_count = Cardinality(ChangesWhere(IsReplace))
        /\ blast_radius.create_count = Cardinality(ChangesWhere(IsCreate))
        /\ blast_radius.delete_count = Cardinality(ChangesWhere(IsDelete))
        /\ blast_radius.update_count = Cardinality(ChangesWhere(IsUpdate))
        /\ blast_radius.create_count + blast_radius.update_count
             + blast_radius.delete_count + blast_radius.replace_count
               <= blast_radius.total_resources

\* C18 witness: a plan of one {create, delete} change and one change of no
\* category: replace_count 1, create_count and delete_count 0, total 2.
C18_Witness ==
    /\ ClassifierReturned
    /\ \E i \in 1..Len(plan_file.resource_changes) :
          plan_file.resource_changes[i].actions = {"create", "delete"}
    /\ blast_radius.replace_count = 1
    /\ blast_radius.create_count = 0
    /\ blast_radius.delete_count = 0
    /\ blast_radius.update_count = 0
    /\ blast_radius.total_resources = 2

\* the implementation that was called, on another sequence
CalledClassifier(resource_changes) ==
    IF pc = "utils_returned"
    THEN calculate_blast_radius(resource_changes, thresholds)
    ELSE PlanIngestor_calculate_blast_radius(resource_changes, thresholds)

\* s with its elements rearranged by the bijection f of 1..Len(s)
Permuted(s, f) == [i \in 1..Len(s) |-> s[f[i]]]

Transpositions(n) ==
    {[k \in 1..n |-> IF k = i THEN j ELSE IF k = j THEN i ELSE k] : i, j \in 1..n}

AllPermutations(n) ==
    {f \in [1..n -> 1..n] : \A i, j \in 1..n : f[i] = f[j] => i = j}

\* every permutation of a short plan; every exchange of two changes of a
\* longer one (the plans classified are all the sequences over their kinds,
\* so the exchanges carry over to every permutation)
Rearrangements(n) ==
    IF n <= MaxMixed + 1 THEN AllPermutations(n) ELSE Transpositions(n)

SameClassification(a, b) ==
    /\ a.level = b.level
    /\ a.total_resources = b.total_resources
    /\ a.create_count = b.create_count
    /\ a.update_count = b.update_count
    /\ a.delete_count = b.delete_count
    /\ a.replace_count = b.replace_count
    /\ Len(a.critical_resources) = Len(b.critical_resources)
    /\ SeqToSet(a.critical_resources) = SeqToSet(b.critical_resources)

\* C20: the classifier is order-independent: the level, total_resources and
\* the four counts of a plan equal those of every rearrangement of it, and
\* critical_resources holds the same addresses.
C20_OrderIndependent ==
    ClassifierReturned =>
        \A f \in Rearrangements(Len(plan_file.resource_changes)) :
            SameClassification(
                blast_radius,
                CalledClassifier(Permuted(plan_file.resource_changes, f)))

\* C20 witness: two critical deletions; exchanged, they give the same
\* addresses in another order.
C20_Witness ==
    /\ ClassifierReturned
    /\ Len(blast_radius.critical_resources) = 2
    /\ \E f \in Rearrangements(Len(plan_file.resource_changes)) :
          CalledClassifier(Permuted(plan_file.resource_changes, f)).critical_resources
              # blast_radius.critical_resources

\* the result of the implementation that was not called, on the same input
OtherClassifier(resource_changes) ==
    IF pc = "utils_returned"
    THEN PlanIngestor_calculate_blast_radius(resource_changes, thresholds)
    ELSE calculate_blast_radius(resource_changes, thresholds)

\* C27: PlanIngestor.calculate_blast_radius and utils calculate_blast_radius
\* return the same level, the same four counts, the same total and the same
\* critical_resources for every list of changes and every threshold
\* configuration.
C27_ImplementationsAgree ==
    ClassifierReturned =>
        blast_radius = OtherClassifier(plan_file.resource_changes)

(***************************************************************************)
(* PolicyValidator.should_block (phases/phase2_opa.py)                     *)
(***************************************************************************)
DenyMessages == {"deny: public bucket", "deny: open ingress"}

\* validation_results.get("strict_mode", True)
GetStrictMode(results) ==
    IF results.has_strict_mode THEN results.strict_mode ELSE TRUE

PolicyValidator_should_block_StrictOnly(results, blast_radius_level) ==
    LET deny_messages == results.deny
        strict == GetStrictMode(results)
    IN IF deny_messages = <<>> THEN [block |-> FALSE, reasons |-> <<>>]
       ELSE IF strict THEN [block |-> TRUE, reasons |-> deny_messages]
       ELSE [block |-> FALSE, reasons |-> <<>>]

\* PolicyValidator.should_block(validation_results, blast_radius_level)
PolicyValidator_should_block(results, blast_radius_level) ==
    LET deny_messages == results.deny
        strict == GetStrictMode(results)
    IN IF deny_messages = <<>> THEN [block |-> FALSE, reasons |-> <<>>]
       ELSE IF strict THEN [block |-> TRUE, reasons |-> deny_messages]
       ELSE IF blast_radius_level = "red" THEN [block |-> TRUE, reasons |-> deny_messages]
       ELSE [block |-> FALSE, reasons |-> <<>>]

PolicyInputs ==
    {[deny |-> d, warn |-> <<>>, info |-> <<>>, passed |-> (d = <<>>),
      has_strict_mode |-> h, strict_mode |-> m] :
        d \in SeqUpTo(DenyMessages, MaxDeny), h \in BOOLEAN, m \in BOOLEAN}

InitPolicy ==
    /\ pc = "policy_call"
    /\ plan_file = PlanOk(<<>>)
    /\ thresholds = [given |-> FALSE, yellow |-> 0, red |-> 0]
    /\ validation_results \in {r \in PolicyInputs : r.has_strict_mode \/ r.strict_mode}
    /\ blast_radius \in {[NoBlastRadius EXCEPT !.level = l] : l \in {GREEN, YELLOW, RED}}
    /\ should_block = FALSE
    /\ reasons = <<>>
    /\ IdlePipeline
    /\ IdleGatekeeper
    /\ IdleEngine

CallShouldBlock ==
    /\ pc = "policy_call"
    /\ LET r == PolicyValidator_should_block(validation_results, blast_radius.level) IN
        /\ should_block' = r.block
        /\ reasons' = r.reasons
    /\ pc' = "policy_returned"
    /\ UNCHANGED <<inputVars, phaseVars, console_reasons, exit_code, failed_phase, error,
                   gkVars, sideVars>>

NextPolicy == CallShouldBlock

SpecPolicy == InitPolicy /\ [][NextPolicy]_vars

\* C10: should_block returns (true, deny messages) exactly when the deny list
\* is non-empty and strict mode is on or the level is RED; otherwise it
\* returns (false, empty list).
C10_PolicyShouldBlock ==
    pc = "policy_returned" =>
        LET blocks == /\ validation_results.deny # <<>>
                      /\ \/ GetStrictMode(validation_results)
                         \/ blast_radius.level = RED
        IN /\ should_block <=> blocks
           /\ blocks => reasons = validation_results.deny
           /\ ~blocks => reasons = <<>>

\* C10 witness: non-strict mode, a RED level and two denies: blocked with both
\* messages as reasons.
C10_Witness ==
    /\ pc = "policy_returned"
    /\ validation_results.has_strict_mode
    /\ ~validation_results.strict_mode
    /\ blast_radius.level = RED
    /\ Len(validation_results.deny) = 2
    /\ should_block
    /\ reasons = validation_results.deny

(***************************************************************************)
(* SpecValidate: one call of PolicyValidator.validate (compile, evaluate,  *)
(* normalise).                                                             *)
(***************************************************************************)
RuleKeys == {"deny", "warn", "info"}

\* what stands under a rule key of the expression value: an array of
\* messages, or something that is not an array
OpaEntries ==
    {[is_list |-> TRUE, items |-> m] : m \in SeqUpTo(DenyMessages, MaxDeny)}
        \cup {[is_list |-> FALSE, items |-> <<>>]}

\* expression values: each subset of the rule keys, with every entry
OpaValues == UNION {[K -> OpaEntries] : K \in SUBSET RuleKeys}

SecondResult ==
    [value |-> [k \in {"deny"} |-> [is_list |-> TRUE, items |-> <<"deny: public bucket">>]]]

\* the JSON document `opa eval` prints: no result key, an empty result set,
\* one result, or two
OpaOutputs ==
    {[has_result |-> FALSE, result |-> <<>>], [has_result |-> TRUE, result |-> <<>>]}
        \cup {[has_result |-> TRUE, result |-> <<[value |-> v]>>] : v \in OpaValues}
        \cup {[has_result |-> TRUE, result |-> <<[value |-> v], SecondResult>>] :
                 v \in OpaValues}

CompileFailures ==
    {"policy dir not found", "no rego files", "compilation failed",
     "compilation timed out", "subprocess error", "not started"}

EvaluateFailures ==
    {"policy dir not found", "evaluation failed", "evaluation timed out",
     "output not json", "subprocess error", "not started"}

OpaRuns ==
    {[compile |-> c, evaluate |-> "not run", output |-> NoOpaRun.output] :
        c \in CompileFailures}
        \cup {[compile |-> "ok", evaluate |-> e, output |-> NoOpaRun.output] :
                 e \in EvaluateFailures}
        \cup {[compile |-> "ok", evaluate |-> "ok", output |-> o] : o \in OpaOutputs}

\* the exception of a client call: OPAPolicyError for what the client
\* reports itself, the OSError of a binary that cannot be started otherwise
OpaClientError(outcome) ==
    [raised |-> TRUE,
     kind |-> IF outcome = "not started" THEN "OSError" ELSE "OPAPolicyError",
     message |-> outcome]

\* OPAClient.compile_policies
compile_policies(outcome) ==
    IF outcome = "ok" THEN [raised |-> FALSE, kind |-> "", message |-> ""]
    ELSE OpaClientError(outcome)

parse_eval_output_LastResult(output) ==
    LET value == IF output.has_result /\ Len(output.result) > 0
                 THEN output.result[Len(output.result)].value ELSE <<>>
        Extract(k) == IF k \in DOMAIN value /\ value[k].is_list
                      THEN value[k].items ELSE <<>>
    IN [deny |-> Extract("deny"), warn |-> Extract("warn"), info |-> Extract("info")]

\* OPAClient._parse_eval_output
parse_eval_output(output) ==
    LET value == IF output.has_result /\ Len(output.result) > 0
                 THEN output.result[1].value ELSE <<>>
        Extract(k) == IF k \in DOMAIN value /\ value[k].is_list
                      THEN value[k].items ELSE <<>>
    IN [deny |-> Extract("deny"), warn |-> Extract("warn"), info |-> Extract("info")]

\* OPAClient.evaluate
evaluate(outcome, output) ==
    IF outcome = "ok"
    THEN [raised |-> FALSE, kind |-> "", message |-> "",
          results |-> parse_eval_output(output)]
    ELSE [raised |-> TRUE, kind |-> OpaClientError(outcome).kind, message |-> outcome,
          results |-> parse_eval_output(NoOpaRun.output)]

\* except OPAPolicyError as e: raise PolicyValidationError(...) from e
ValidateErrorKind(kind) ==
    IF kind = "OPAPolicyError" THEN "PolicyValidationError" ELSE kind

InitValidate ==
    /\ pc = "pv_compile"
    /\ opa_run \in OpaRuns
    /\ strict_mode \in BOOLEAN
    /\ plan_file = PlanOk(<<>>)
    /\ thresholds = [given |-> FALSE, yellow |-> 0, red |-> 0]
    /\ commit_message = ""
    /\ break_glass = FALSE
    /\ shadow_mode = FALSE
    /\ changes = <<>>
    /\ blast_radius = NoBlastRadius
    /\ validation_results = NoValidation
    /\ drift_result = NoDrift
    /\ temporal = NoTemporal
    /\ intent_result = "none"
    /\ should_block = FALSE
    /\ reasons = <<>>
    /\ console_reasons = <<>>
    /\ exit_code = -1
    /\ failed_phase = "none"
    /\ error = ""
    /\ phase3_warning = ""
    /\ error_kind = ""
    /\ drift_tfplan = NoPlanFile
    /\ runs = 0
    /\ apply_result = NotApplied
    /\ IdleGatekeeper
    /\ IdleEngine

\* validate up to the return of compile_policies
ValidateCompile ==
    /\ pc = "pv_compile"
    /\ LET c == compile_policies(opa_run.compile) IN
        IF c.raised
        THEN /\ pc' = "pv_raised"
             /\ failed_phase' = "compile_policies"
             /\ error' = c.message
             /\ error_kind' = ValidateErrorKind(c.kind)
        ELSE /\ pc' = "pv_evaluate"
             /\ UNCHANGED <<failed_phase, error, error_kind>>
    /\ UNCHANGED <<inputVars, phaseVars, should_block, reasons, console_reasons,
                   exit_code, gkVars, phase3_warning, drift_tfplan, runs,
                   apply_result, opa_run>>

\* validate from the call of evaluate to its return or raise
ValidateEvaluate ==
    /\ pc = "pv_evaluate"
    /\ LET r == evaluate(opa_run.evaluate, opa_run.output) IN
        IF r.raised
        THEN /\ pc' = "pv_raised"
             /\ failed_phase' = "evaluate"
             /\ error' = r.message
             /\ error_kind' = ValidateErrorKind(r.kind)
             /\ UNCHANGED validation_results
        ELSE /\ pc' = "pv_returned"
             /\ validation_results' =
                    [deny |-> r.results.deny, warn |-> r.results.warn,
                     info |-> r.results.info,
                     passed |-> (Len(r.results.deny) = 0),
                     has_strict_mode |-> TRUE, strict_mode |-> strict_mode]
             /\ UNCHANGED <<failed_phase, error, error_kind>>
    /\ UNCHANGED <<inputVars, changes, blast_radius, drift_result, temporal,
                   intent_result, should_block, reasons, console_reasons,
                   exit_code, gkVars, phase3_warning, drift_tfplan, runs,
                   apply_result, opa_run>>

NextValidate == ValidateCompile \/ ValidateEvaluate

SpecValidate == InitValidate /\ [][NextValidate]_vars

\* C24: validate compiles before it evaluates and never evaluates after a
\* failed compilation, and the error raised for a compilation failure is of
\* a different kind from the error raised for an evaluation failure.
C24_CompileErrorIsDistinct ==
    /\ pc \in {"pv_evaluate", "pv_returned"} => opa_run.compile = "ok"
    /\ (pc = "pv_raised" /\ failed_phase = "compile_policies") =>
          /\ validation_results = NoValidation
          /\ \A f \in EvaluateFailures :
                error_kind # ValidateErrorKind(evaluate(f, NoOpaRun.output).kind)

\* the expression value of the first result of the printed document
FirstValue ==
    IF opa_run.output.has_result /\ opa_run.output.result # <<>>
    THEN Head(opa_run.output.result).value ELSE <<>>

\* C25: the normalised result always has deny, warn and info lists; each
\* equals the array under that key in the first result's first expression
\* value and is empty when the key is absent, stands for something that is
\* not an array, or the result set is empty; passed is true exactly when the
\* deny list is empty.
C25_NormalisedResult ==
    pc = "pv_returned" =>
        /\ \A k \in RuleKeys :
              /\ k \in DOMAIN validation_results
              /\ validation_results[k] =
                    IF k \in DOMAIN FirstValue /\ FirstValue[k].is_list
                    THEN FirstValue[k].items ELSE <<>>
        /\ validation_results.passed <=> validation_results.deny = <<>>

\* C25 witness: two results; the first has a deny array of two messages and
\* no warn key, and the normalised result is that array, no warning, not
\* passed.
C25_Witness ==
    /\ pc = "pv_returned"
    /\ Len(opa_run.output.result) = 2
    /\ "deny" \in DOMAIN FirstValue
    /\ "warn" \notin DOMAIN FirstValue
    /\ Len(validation_results.deny) = 2
    /\ validation_results.deny[1] # validation_results.deny[2]
    /\ validation_results.warn = <<>>
    /\ ~validation_results.passed

(***************************************************************************)
(* Context engine (phases/phase3_context.py)                               *)
(***************************************************************************)
analyze_temporal_context_Uncapped(self, brisk, now) ==
    LET weekday == now[1]
        hour == now[2]
        is_weekend == weekday >= 5
        is_friday_afternoon == weekday = 4 /\ hour >= self.friday_cutoff_hour
        is_after_hours == hour >= self.after_hours_start \/ hour < self.after_hours_end
        risk_value == brisk
                      + (IF self.weekend_blocking /\ is_weekend THEN 1 ELSE 0)
                      + (IF is_friday_afternoon THEN 1 ELSE 0)
                      + (IF is_after_hours THEN 1 ELSE 0)
    IN [weekday |-> weekday, hour |-> hour, is_weekend |-> is_weekend,
        is_after_hours |-> is_after_hours,
        is_friday_afternoon |-> is_friday_afternoon,
        risk_level |-> risk_value]

\* ContextEngine.analyze_temporal_context(base_risk) when datetime.now() is
\* now = <<weekday, hour>>
analyze_temporal_context(self, brisk, now) ==
    LET weekday == now[1]
        hour == now[2]
        is_weekend == weekday >= 5
        is_friday_afternoon == weekday = 4 /\ hour >= self.friday_cutoff_hour
        is_after_hours == hour >= self.after_hours_start \/ hour < self.after_hours_end
        risk_value == brisk
                      + (IF self.weekend_blocking /\ is_weekend THEN 1 ELSE 0)
                      + (IF is_friday_afternoon THEN 1 ELSE 0)
                      + (IF is_after_hours THEN 1 ELSE 0)
    IN [weekday |-> weekday, hour |-> hour, is_weekend |-> is_weekend,
        is_after_hours |-> is_after_hours,
        is_friday_afternoon |-> is_friday_afternoon,
        risk_level |-> IF risk_value < RiskCRITICAL THEN risk_value ELSE RiskCRITICAL]

\* a resource change of the refresh-only snapshot: [address, actions, changed],
\* changed standing for change.before != change.after
Snap(address, actions, changed) ==
    [address |-> address, actions |-> actions, changed |-> changed]

\* the loop / list comprehension that keeps, in order, the elements in keep
RECURSIVE FilterSeq(_, _)
FilterSeq(s, keep) ==
    IF s = <<>> THEN <<>>
    ELSE IF Head(s) \in keep THEN <<Head(s)>> \o FilterSeq(Tail(s), keep)
    ELSE FilterSeq(Tail(s), keep)

CompareDrift_ConflictsAnyDrift(drift_changes, plan_resources) ==
    LET drifted == {r \in SeqToSet(drift_changes) :
                        /\ ("update" \in r.actions \/ "no-op" \in r.actions)
                        /\ r.changed}
        drifted_resources == FilterSeq(drift_changes, drifted)
    IN [has_drift |-> Len(drifted_resources) > 0,
        drifted_resources |-> drifted_resources,
        conflict_resources |-> drifted_resources]

\* the comparison of detect_drift, once the snapshot was read
CompareDrift(drift_changes, plan_resources) ==
    LET drifted == {r \in SeqToSet(drift_changes) :
                        /\ ("update" \in r.actions \/ "no-op" \in r.actions)
                        /\ r.changed}
        drifted_resources == FilterSeq(drift_changes, drifted)
        plan_addresses == {plan_resources[i].address : i \in 1..Len(plan_resources)}
        conflicting == {r \in SeqToSet(drifted_resources) : r.address \in plan_addresses}
        conflict_resources == FilterSeq(drifted_resources, conflicting)
    IN [has_drift |-> Len(drifted_resources) > 0,
        drifted_resources |-> drifted_resources,
        conflict_resources |-> conflict_resources]

DriftReturned(result) == [raised |-> FALSE, result |-> result]
\* an exception that none of the except clauses of detect_drift names
DriftRaised == [raised |-> TRUE, result |-> NoDrift]

\* ContextEngine.detect_drift for each outcome of the two terraform
\* subprocesses: TimeoutExpired, SubprocessError and JSONDecodeError are
\* caught; the OSError of a process that cannot be started and the
\* AttributeError / TypeError of a document that is not the expected object
\* are not. The return code of the refresh is not looked at.
detect_drift(outcome, plan_resources) ==
    IF outcome.refresh = "timeout" THEN DriftReturned(NoDrift)
    ELSE IF outcome.refresh = "not started" THEN DriftRaised
    ELSE IF outcome.show = "timeout" THEN DriftReturned(NoDrift)
    ELSE IF outcome.show = "not started" THEN DriftRaised
    ELSE IF outcome.show = "nonzero" THEN DriftReturned(NoDrift)
    ELSE IF outcome.show = "bad json" THEN DriftReturned(NoDrift)
    ELSE IF outcome.show = "not an object" THEN DriftRaised
    ELSE DriftReturned(CompareDrift(outcome.snapshot, plan_resources))

(***************************************************************************)
(* tf-gate validate (cli.py)                                               *)
(***************************************************************************)
ExitAllowed == 0
ExitBlocked == 1
ExitBreakGlass == 42
ExitPipelineError == 1

PipelineKinds ==
    {Res(<<"aws_instance", "web">>, "aws_instance", {"create"}, "plain"),
     Res(<<"aws_instance", "web">>, "aws_instance", {"update"}, "plain"),
     Res(<<"aws_db_instance", "main">>, "aws_db_instance", {"delete"}, "plain"),
     Res(<<"aws_s3_bucket", "logs">>, "aws_s3_bucket", {"no-op"}, "plain")}

PipelinePlanFiles ==
    {PlanOk(p) : p \in SeqUpTo(PipelineKinds, MaxPlanLen)}
        \cup {[status |-> "absent", resource_changes |-> <<>>],
              [status |-> "malformed", resource_changes |-> <<>>]}

PipelineThresholds ==
    {[given |-> FALSE, yellow |-> 0, red |-> 0],
     [given |-> TRUE, yellow |-> 1, red |-> 2]}

\* what the policy engine answers: an error of compile_policies or evaluate,
\* or the parsed lists
OpaFailures ==
    {"policy dir not found", "no rego files", "compilation failed",
     "compilation timed out", "evaluation failed", "evaluation timed out",
     "output not json", "opa binary not found"}

OpaResults ==
    {[deny |-> d, warn |-> w, info |-> <<>>] :
        d \in SeqUpTo({"deny: open ingress"}, MaxDeny),
        w \in {<<>>, <<"warn: untagged">>}}

\* local (weekday, hour) pairs: Wednesday noon, Saturday 20h
PipelineTimes == {<<2, 12>>, <<5, 20>>}

Snapshots ==
    {<<>>,
     <<Snap(<<"aws_instance", "web">>, {"update"}, TRUE)>>,
     <<Snap(<<"aws_s3_bucket", "logs">>, {"no-op"}, TRUE)>>}

ShowFailures == {"timeout", "not started", "nonzero", "bad json", "not an object"}

\* every way the two subprocesses can end, show printing one of snapshots
\* when it succeeds
DriftOutcomesOver(snapshots) ==
    {DriftOutcome(r, "not run", <<>>) : r \in {"timeout", "not started"}}
        \cup {DriftOutcome(r, s, <<>>) : r \in {"ok", "nonzero"}, s \in ShowFailures}
        \cup {DriftOutcome(r, "ok", sn) : r \in {"ok", "nonzero"}, sn \in snapshots}

DriftOutcomes == DriftOutcomesOver(Snapshots)

\* what Phase 4 ends with: no commit message, a verdict, or an exception
IntentOutcomes == {"no commit message", "aligned", "mismatch", "error"}

PolicyReason(deny_count) == [text |-> "policy violations", count |-> deny_count]
RedReason == [text |-> "RED blast radius level", count |-> 0]
DriftReason == [text |-> "Drift conflicts detected", count |-> 0]

Aggregate_BlockOnAnyDrift(deny_count, level, drift) ==
    LET sb1 == deny_count > 0
        r1 == IF deny_count > 0 THEN <<PolicyReason(deny_count)>> ELSE <<>>
        sb2 == sb1 \/ level = RED
        r2 == IF level = RED THEN Append(r1, RedReason) ELSE r1
        sb3 == sb2 \/ drift.has_drift
        r3 == IF drift.has_drift THEN Append(r2, DriftReason) ELSE r2
    IN [should_block |-> sb3, reasons |-> r3]

\* "Summary & Decision": should_block and reasons from the three checks
Aggregate(deny_count, level, drift) ==
    LET sb1 == deny_count > 0
        r1 == IF deny_count > 0 THEN <<PolicyReason(deny_count)>> ELSE <<>>
        sb2 == sb1 \/ level = RED
        r2 == IF level = RED THEN Append(r1, RedReason) ELSE r1
        sb3 == sb2 \/ drift.conflict_resources # <<>>
        r3 == IF drift.conflict_resources # <<>> THEN Append(r2, DriftReason) ELSE r2
    IN [should_block |-> sb3, reasons |-> r3]

Decide_ShadowFirst(bg, shadow, sb, rs) ==
    IF shadow THEN [code |-> ExitAllowed, printed |-> IF sb THEN rs ELSE <<>>]
    ELSE IF bg THEN [code |-> ExitBreakGlass, printed |-> <<>>]
    ELSE IF sb THEN [code |-> ExitBlocked, printed |-> rs]
    ELSE [code |-> ExitAllowed, printed |-> <<>>]

Decide_ShadowEnforces(bg, shadow, sb, rs) ==
    IF bg THEN [code |-> ExitBreakGlass, printed |-> <<>>]
    ELSE IF sb THEN [code |-> ExitBlocked, printed |-> rs]
    ELSE [code |-> ExitAllowed, printed |-> <<>>]

Decide_NeverBlocks(bg, shadow, sb, rs) ==
    IF bg THEN [code |-> ExitBreakGlass, printed |-> <<>>]
    ELSE IF shadow THEN [code |-> ExitAllowed, printed |-> IF sb THEN rs ELSE <<>>]
    ELSE [code |-> ExitAllowed, printed |-> IF sb THEN rs ELSE <<>>]

\* break glass, then shadow mode, then the normal decision: the exit code and
\* the reasons printed on the console
Decide(bg, shadow, sb, rs) ==
    IF bg THEN [code |-> ExitBreakGlass, printed |-> <<>>]
    ELSE IF shadow THEN [code |-> ExitAllowed, printed |-> IF sb THEN rs ELSE <<>>]
    ELSE IF sb THEN [code |-> ExitBlocked, printed |-> rs]
    ELSE [code |-> ExitAllowed, printed |-> <<>>]

Init ==
    /\ pc = "plan_path"
    /\ plan_file \in PipelinePlanFiles
    /\ thresholds \in PipelineThresholds
    /\ break_glass \in BOOLEAN
    /\ shadow_mode \in BOOLEAN
    /\ strict_mode \in BOOLEAN
    /\ commit_message = ""
    /\ changes = <<>>
    /\ blast_radius = NoBlastRadius
    /\ validation_results = NoValidation
    /\ drift_result = NoDrift
    /\ temporal = NoTemporal
    /\ intent_result = "none"
    /\ should_block = FALSE
    /\ reasons = <<>>
    /\ console_reasons = <<>>
    /\ exit_code = -1
    /\ failed_phase = "none"
    /\ error = ""
    /\ IdleSide
    /\ IdleGatekeeper
    /\ IdleEngine

\* "Determine plan file path"
ResolvePlanPath ==
    /\ pc = "plan_path"
    /\ IF plan_file.status = "absent"
       THEN /\ pc' = "done"
            /\ exit_code' = ExitPipelineError
            /\ failed_phase' = "plan_path"
            /\ error' = "plan file not found"
       ELSE /\ pc' = "phase1"
            /\ UNCHANGED <<exit_code, failed_phase, error>>
    /\ UNCHANGED <<inputVars, phaseVars, should_block, reasons, console_reasons, gkVars,
                   sideVars>>

Phase1_BreakGlassOverrides ==
    /\ pc = "phase1"
    /\ IF plan_file.status = "malformed"
       THEN /\ pc' = "done"
            /\ exit_code' = IF break_glass THEN ExitBreakGlass ELSE ExitPipelineError
            /\ failed_phase' = "phase1"
            /\ error' = "plan not parsed"
            /\ UNCHANGED <<changes, blast_radius>>
       ELSE /\ pc' = "phase2"
            /\ changes' = plan_file.resource_changes
            /\ blast_radius' =
                   PlanIngestor_calculate_blast_radius(plan_file.resource_changes, thresholds)
            /\ UNCHANGED <<exit_code, failed_phase, error>>
    /\ UNCHANGED <<inputVars, validation_results, drift_result, temporal, intent_result,
                   should_block, reasons, console_reasons, gkVars, sideVars>>

\* Phase 1: ingest_plan, or the except branch
Phase1 ==
    /\ pc = "phase1"
    /\ IF plan_file.status = "malformed"
       THEN /\ pc' = "done"
            /\ exit_code' = ExitPipelineError
            /\ failed_phase' = "phase1"
            /\ error' = "plan not parsed"
            /\ UNCHANGED <<changes, blast_radius>>
       ELSE /\ pc' = "phase2"
            /\ changes' = plan_file.resource_changes
            /\ blast_radius' =
                   PlanIngestor_calculate_blast_radius(plan_file.resource_changes, thresholds)
            /\ UNCHANGED <<exit_code, failed_phase, error>>
    /\ UNCHANGED <<inputVars, validation_results, drift_result, temporal, intent_result,
                   should_block, reasons, console_reasons, gkVars, sideVars>>

Phase2Fails_SkipsToPhase3 ==
    /\ pc = "phase2"
    /\ \E e \in OpaFailures :
        /\ pc' = "phase3"
        /\ error' = e
    /\ UNCHANGED <<inputVars, phaseVars, should_block, reasons, console_reasons,
                   exit_code, failed_phase, gkVars, sideVars>>

\* Phase 2: run_phase2_validation raises
Phase2Fails ==
    /\ pc = "phase2"
    /\ \E e \in OpaFailures :
        /\ pc' = "done"
        /\ exit_code' = ExitPipelineError
        /\ failed_phase' = "phase2"
        /\ error' = e
    /\ UNCHANGED <<inputVars, phaseVars, should_block, reasons, console_reasons, gkVars,
                   sideVars>>

\* Phase 2: run_phase2_validation returns the results
Phase2 ==
    /\ pc = "phase2"
    /\ \E r \in OpaResults :
        validation_results' =
            [deny |-> r.deny, warn |-> r.warn, info |-> r.info,
             passed |-> (Len(r.deny) = 0),
             has_strict_mode |-> TRUE, strict_mode |-> strict_mode]
    /\ pc' = "phase3"
    /\ UNCHANGED <<inputVars, changes, blast_radius, drift_result, temporal,
                   intent_result, decisionVars, gkVars, sideVars>>

\* Phase 3: run_phase3_context_analysis, or the except branch that leaves
\* only an empty drift result in context_results
Phase3 ==
    /\ pc = "phase3"
    /\ \E now \in PipelineTimes, o \in DriftOutcomes :
        LET drift == detect_drift(o, changes)
        IN IF drift.raised
           THEN /\ drift_result' = NoDrift
                /\ temporal' = NoTemporal
                /\ phase3_warning' = "drift detection raised"
           ELSE /\ drift_result' = drift.result
                /\ temporal' = analyze_temporal_context(engine, base_risk, now)
                /\ UNCHANGED phase3_warning
    /\ pc' = "phase4"
    /\ UNCHANGED <<inputVars, changes, blast_radius, validation_results,
                   intent_result, decisionVars, gkVars, error_kind, drift_tfplan,
                   runs, apply_result, opa_run>>

\* Phase 4: the intent verdict is printed and nothing else
Phase4 ==
    /\ pc = "phase4"
    /\ intent_result' \in IntentOutcomes
    /\ pc' = "decision"
    /\ UNCHANGED <<inputVars, changes, blast_radius, validation_results,
                   drift_result, temporal, decisionVars, gkVars, sideVars>>

\* "Summary & Decision" to the return
Decision ==
    /\ pc = "decision"
    /\ LET a == Aggregate(Len(validation_results.deny), blast_radius.level, drift_result)
           d == Decide(break_glass, shadow_mode, a.should_block, a.reasons)
       IN /\ should_block' = a.should_block
          /\ reasons' = a.reasons
          /\ console_reasons' = d.printed
          /\ exit_code' = d.code
    /\ pc' = "done"
    /\ UNCHANGED <<inputVars, phaseVars, failed_phase, error, gkVars, sideVars>>

Next == ResolvePlanPath \/ Phase1 \/ Phase2Fails \/ Phase2 \/ Phase3 \/ Phase4 \/ Decision

Spec == Init /\ [][Next]_vars

\* validate is straight-line code: every subprocess it starts has a timeout
\* and no step waits on anything else, so a step that can be taken is taken
SpecLive == Spec /\ WF_vars(Next)

\* the run went through Phase 1 and Phase 2 and returned from the decision
AggregatorReached == pc = "done" /\ failed_phase = "none"

deny_count == Len(validation_results.deny)

\* C1: after Phase 1 and Phase 2, should_block is true iff deny_count > 0 or
\* the level is RED or the drift result has conflicts; temporal risk, warn
\* count, drift without conflict and the intent verdict do not enter.
C1_ShouldBlockIffThreeSignals ==
    AggregatorReached =>
        (should_block <=> \/ deny_count > 0
                          \/ blast_radius.level = RED
                          \/ drift_result.conflict_resources # <<>>)

\* C1 witness: warnings, an escalated temporal risk, drift without conflict
\* and an intent mismatch together, and should_block is false.
C1_Witness ==
    /\ AggregatorReached
    /\ validation_results.warn # <<>>
    /\ temporal.risk_level > RiskLOW
    /\ drift_result.has_drift
    /\ intent_result = "mismatch"
    /\ ~should_block

\* every signal that is set has its reason in the list
ReasonsPopulated(rs) ==
    /\ should_block => rs # <<>>
    /\ deny_count > 0 => PolicyReason(deny_count) \in SeqToSet(rs)
    /\ blast_radius.level = RED => RedReason \in SeqToSet(rs)
    /\ drift_result.conflict_resources # <<>> => DriftReason \in SeqToSet(rs)

\* C2: with break-glass active the run ends with exit code 42 whatever
\* should_block and shadow mode are, and the reasons list holds the reasons
\* that made should_block true.
C2_BreakGlassOverrides ==
    (AggregatorReached /\ break_glass) =>
        /\ exit_code = 42
        /\ ReasonsPopulated(reasons)

\* C2 witness: break-glass and shadow mode both active on a run that would block.
C2_Witness ==
    /\ AggregatorReached
    /\ break_glass
    /\ shadow_mode
    /\ should_block
    /\ exit_code = 42
    /\ reasons # <<>>

\* C3: with shadow mode active and break-glass inactive the run ends with exit
\* code 0 whatever should_block is, and when should_block is true the reasons
\* are populated and printed.
C3_ShadowAllows ==
    (AggregatorReached /\ shadow_mode /\ ~break_glass) =>
        /\ exit_code = 0
        /\ ReasonsPopulated(reasons)
        /\ should_block => console_reasons = reasons

\* C3 witness: a shadow-mode run that would have blocked, allowed with its
\* reasons printed.
C3_Witness ==
    /\ AggregatorReached
    /\ shadow_mode
    /\ ~break_glass
    /\ should_block
    /\ exit_code = 0
    /\ console_reasons # <<>>

\* C4: with neither override the exit code is 1 exactly when should_block is
\* true and 0 exactly when it is false; no deny, a GREEN level and no drift
\* conflict give 0.
C4_NormalDecision ==
    (AggregatorReached /\ ~break_glass /\ ~shadow_mode) =>
        /\ exit_code = 1 <=> should_block
        /\ exit_code = 0 <=> ~should_block
        /\ (/\ deny_count = 0
            /\ blast_radius.level = GREEN
            /\ drift_result.conflict_resources = <<>>) => exit_code = 0

\* C4 witness: a plain run blocked by a policy denial alone.
C4_Witness ==
    /\ AggregatorReached
    /\ ~break_glass
    /\ ~shadow_mode
    /\ deny_count > 0
    /\ blast_radius.level = GREEN
    /\ drift_result.conflict_resources = <<>>
    /\ exit_code = 1

\* C5: a run that failed inside Phase 1 or Phase 2 ends with an exit code that
\* is none of 0 (allowed), 1 (blocked) and 42 (override).
C5_FailureExitIsDistinct ==
    (pc = "done" /\ failed_phase \in {"phase1", "phase2"}) =>
        exit_code \notin {0, 1, 42}

\* C11: with strict mode off and neither override, a run with two denials and
\* no drift conflict is allowed (exit 0) at level YELLOW and blocked (exit 1)
\* at level RED.
C11_NonStrictDenyBlocksOnlyRed ==
    (/\ AggregatorReached
     /\ ~strict_mode /\ ~break_glass /\ ~shadow_mode
     /\ deny_count = 2
     /\ drift_result.conflict_resources = <<>>) =>
        /\ blast_radius.level = YELLOW => exit_code = ExitAllowed
        /\ blast_radius.level = RED => exit_code = ExitBlocked

\* the changes of the plan file that are neither exactly {no-op} nor exactly
\* {read}
RelevantChanges ==
    {i \in 1..Len(plan_file.resource_changes) :
        plan_file.resource_changes[i].actions \notin {{"no-op"}, {"read"}}}

\* C19: changes whose action set is exactly {no-op} or exactly {read} are
\* excluded from what ingest_plan carries forward: they are not counted in
\* total_resources and are not among the resource changes handed to Phase 2.
C19_NoOpAndReadExcluded ==
    (pc \in {"phase2", "phase3", "phase4", "decision"} \/ AggregatorReached) =>
        /\ blast_radius.total_resources = Cardinality(RelevantChanges)
        /\ \A i \in 1..Len(changes) : changes[i].actions \notin {{"no-op"}, {"read"}}

\* C23: the temporal and the drift sub-analysis tolerate each other's
\* failure: when drift detection failed in Phase 3, the temporal context of
\* the run is still produced and available after the phase.
C23_TemporalSurvivesDriftFailure ==
    ((pc \in {"phase4", "decision"} \/ AggregatorReached) /\ phase3_warning # "") =>
        /\ temporal # NoTemporal
        /\ temporal.risk_level >= base_risk

\* the four ways a run ends
RunAllowed == failed_phase = "none" /\ exit_code = ExitAllowed
RunBlocked == failed_phase = "none" /\ exit_code = ExitBlocked
RunOverridden == failed_phase = "none" /\ exit_code = ExitBreakGlass
RunPipelineError == failed_phase # "none" /\ exit_code = ExitPipelineError

\* C28: break-glass overrides only a decision, never a pipeline failure: when
\* Phase 1 or Phase 2 fails, validate ends with the failure result (exit code
\* 1, no decision taken) and never returns the override code 42, even with
\* break-glass active.
C28_BreakGlassNeverOverridesFailure ==
    (pc = "done" /\ failed_phase \in {"phase1", "phase2"}) =>
        /\ exit_code = ExitPipelineError
        /\ exit_code # ExitBreakGlass
        /\ ~should_block
        /\ reasons = <<>>

\* C28 witness: with break-glass active, a run ended in a Phase 2 failure
\* with exit code 1.
C28_Witness ==
    /\ pc = "done"
    /\ break_glass
    /\ failed_phase = "phase2"
    /\ error # ""
    /\ exit_code = ExitPipelineError

\* the order of the steps of validate
PipelineOrder ==
    {<<"plan_path", "phase1">>, <<"phase1", "phase2">>, <<"phase2", "phase3">>,
     <<"phase3", "phase4">>, <<"phase4", "decision">>, <<"decision", "done">>,
     <<"plan_path", "done">>, <<"phase1", "done">>, <<"phase2", "done">>}

\* a step of the run moves along that order
StepInOrder == (LET step == <<pc, pc'>> IN step \in PipelineOrder)

PolicyTimeouts == {"compilation timed out", "evaluation timed out"}

\* the outcome of a finished run, the phases behind an aggregation and the
\* end of a run whose policy step timed out
RunShape ==
    /\ pc = "done" =>
          Cardinality({o \in {"allowed", "blocked", "overridden", "error"} :
                          \/ o = "allowed" /\ RunAllowed
                          \/ o = "blocked" /\ RunBlocked
                          \/ o = "overridden" /\ RunOverridden
                          \/ o = "error" /\ RunPipelineError}) = 1
    /\ pc = "done" => ~ENABLED Next
    /\ (pc = "decision" \/ AggregatorReached) =>
          /\ blast_radius.level \in {GREEN, YELLOW, RED}
          /\ validation_results.has_strict_mode
          /\ error = ""
    /\ error \in PolicyTimeouts =>
          /\ pc = "done"
          /\ RunPipelineError
          /\ validation_results = NoValidation
          /\ ~RunAllowed /\ ~RunOverridden

\* C17: every run of validate terminates in exactly one outcome among
\* allowed, blocked, overridden and pipeline error; the aggregation is reached
\* only after Phase 1 and then Phase 2 completed without error, Phase 2 is
\* never skipped, and a policy compile or evaluation timeout ends the run as a
\* failure, never as allowed or overridden.
C17_RunEndsInOneOutcome ==
    /\ <>(pc = "done")
    /\ []RunShape
    /\ [][StepInOrder]_vars

\* C17 witness: a run ended by an evaluation timeout in Phase 2, as a
\* pipeline error.
C17_Witness ==
    /\ pc = "done"
    /\ error = "evaluation timed out"
    /\ failed_phase = "phase2"
    /\ RunPipelineError

(***************************************************************************)
(* SpecApply: tf-gate apply, which invokes validate and then, if it may,   *)
(* terraform apply (cli.py).                                               *)
(***************************************************************************)
\* what happens after the validation gate: the binary plan next to the JSON
\* plan is missing, the user declines the prompt, the terraform executable is
\* not found, terraform apply exits 0, terraform apply exits 1
ApplyOutcomes ==
    {"binary plan missing", "declined", "terraform missing", "applied", "apply failed"}

Applied(ran, code, stopped_at) ==
    [ran_terraform |-> ran, code |-> code, stopped_at |-> stopped_at]

apply_ProceedsUnlessBlocked(validate_result, outcome) ==
    IF validate_result = ExitBlocked THEN Applied(FALSE, validate_result, "validation")
    ELSE IF outcome = "applied" THEN Applied(TRUE, 0, "end")
    ELSE IF outcome = "apply failed" THEN Applied(TRUE, 1, "end")
    ELSE Applied(FALSE, 1, outcome)

\* apply, after validate returned validate_result
apply(validate_result, outcome) ==
    IF validate_result # 0 THEN Applied(FALSE, validate_result, "validation")
    ELSE IF outcome = "binary plan missing" THEN Applied(FALSE, 1, outcome)
    ELSE IF outcome = "declined" THEN Applied(FALSE, 1, outcome)
    ELSE IF outcome = "terraform missing" THEN Applied(FALSE, 1, outcome)
    ELSE IF outcome = "applied" THEN Applied(TRUE, 0, "end")
    ELSE Applied(TRUE, 1, "end")

\* the part of apply that follows ctx.invoke(validate, ...)
Apply ==
    /\ pc = "done"
    /\ \E outcome \in ApplyOutcomes :
          apply_result' = apply(exit_code, outcome)
    /\ pc' = "apply_done"
    /\ UNCHANGED <<inputVars, phaseVars, decisionVars, gkVars, phase3_warning, error_kind,
                   drift_tfplan, runs, opa_run>>

NextApply == Next \/ Apply

SpecApply == Init /\ [][NextApply]_vars

\* C30: apply runs terraform apply only after validate returned 0 in the same
\* invocation: after a BLOCKED result, a pipeline error or a break-glass
\* result (42) it never runs terraform apply and returns the validation
\* code, while in shadow mode (without break-glass) it goes on past the
\* validation even when should_block is true.
C30_ApplyOnlyAfterValidatePassed ==
    pc = "apply_done" =>
        /\ apply_result.ran_terraform => exit_code = ExitAllowed
        /\ exit_code # ExitAllowed =>
              /\ ~apply_result.ran_terraform
              /\ apply_result.code = exit_code
              /\ apply_result.stopped_at = "validation"
        /\ (RunBlocked \/ RunPipelineError \/ RunOverridden) => ~apply_result.ran_terraform
        /\ (shadow_mode /\ ~break_glass /\ failed_phase = "none") =>
              apply_result.stopped_at # "validation"

\* C30 witness: in shadow mode a run with should_block true went on to run
\* terraform apply.
C30_Witness ==
    /\ pc = "apply_done"
    /\ shadow_mode
    /\ should_block
    /\ apply_result.ran_terraform
    /\ apply_result.code = 0

(***************************************************************************)
(* SpecDrift: one call of ContextEngine.detect_drift.                      *)
(***************************************************************************)
\* resource changes of a refresh-only plan: in or out of the plans below,
\* with and without update / no-op, before equal to after or not
SnapKinds ==
    {Snap(a, acts, c) :
        a \in {<<"aws_instance", "web">>, <<"aws_s3_bucket", "logs">>},
        acts \in {{"update"}, {"no-op"}, {"create"}},
        c \in BOOLEAN}

DriftSnapshots == SeqUpTo(SnapKinds, MaxSnapLen)

\* plan_resources handed to detect_drift
DriftPlans ==
    {<<>>,
     <<Res(<<"aws_instance", "web">>, "aws_instance", {"update"}, "plain")>>,
     <<Res(<<"aws_instance", "web">>, "aws_instance", {"update"}, "plain"),
       Res(<<"aws_db_instance", "main">>, "aws_db_instance", {"delete"}, "plain")>>}

InitDrift ==
    /\ pc = "drift_call"
    /\ changes \in DriftPlans
    /\ drift_outcome \in DriftOutcomesOver(DriftSnapshots)
    /\ engine = DefaultEngine
    /\ base_risk = RiskLOW
    /\ plan_file = PlanOk(<<>>)
    /\ thresholds = [given |-> FALSE, yellow |-> 0, red |-> 0]
    /\ commit_message = ""
    /\ break_glass = FALSE
    /\ shadow_mode = FALSE
    /\ strict_mode = TRUE
    /\ blast_radius = NoBlastRadius
    /\ validation_results = NoValidation
    /\ drift_result = NoDrift
    /\ temporal = NoTemporal
    /\ intent_result = "none"
    /\ should_block = FALSE
    /\ reasons = <<>>
    /\ console_reasons = <<>>
    /\ exit_code = -1
    /\ failed_phase = "none"
    /\ error = ""
    /\ IdleSide
    /\ IdleGatekeeper

\* detect_drift returns a DriftResult
DetectDriftReturns ==
    /\ pc = "drift_call"
    /\ ~detect_drift(drift_outcome, changes).raised
    /\ drift_result' = detect_drift(drift_outcome, changes).result
    /\ pc' = "drift_returned"
    /\ UNCHANGED <<inputVars, changes, blast_radius, validation_results, temporal,
                   intent_result, decisionVars, gkVars, sideVars>>

\* an exception leaves detect_drift
DetectDriftRaises ==
    /\ pc = "drift_call"
    /\ detect_drift(drift_outcome, changes).raised
    /\ pc' = "drift_raised"
    /\ UNCHANGED <<inputVars, phaseVars, decisionVars, gkVars, sideVars>>

NextDrift == DetectDriftReturns \/ DetectDriftRaises

SpecDrift == InitDrift /\ [][NextDrift]_vars

\* the refresh-only snapshot that detect_drift compared
DriftCompared ==
    /\ pc = "drift_returned"
    /\ drift_outcome.refresh \in {"ok", "nonzero"}
    /\ drift_outcome.show = "ok"

PlanAddresses == {changes[i].address : i \in 1..Len(changes)}

\* C12: in a DriftResult returned by detect_drift, a snapshot resource is in
\* drifted_resources exactly when its actions contain update or no-op and
\* before differs from after; conflict_resources holds exactly the drifted
\* resources whose address is among the plan's changes; has_drift is true
\* exactly when drifted_resources is not empty.
C12_DriftResultShape ==
    pc = "drift_returned" =>
        LET snapshot == SeqToSet(drift_outcome.snapshot)
            drifted == SeqToSet(drift_result.drifted_resources)
            conflicts == SeqToSet(drift_result.conflict_resources)
        IN /\ drifted \subseteq snapshot
           /\ DriftCompared =>
                \A r \in snapshot :
                    r \in drifted <=>
                        /\ ("update" \in r.actions \/ "no-op" \in r.actions)
                        /\ r.changed
           /\ conflicts = {r \in drifted : r.address \in PlanAddresses}
           /\ drift_result.has_drift <=> drift_result.drifted_resources # <<>>

\* C12 witness: two drifted resources, one of the plan (a conflict) and one
\* absent from it (no conflict).
C12_Witness ==
    /\ DriftCompared
    /\ drift_result.has_drift
    /\ Len(drift_result.drifted_resources) = 2
    /\ Len(drift_result.conflict_resources) = 1
    /\ \E r \in SeqToSet(drift_result.drifted_resources) : r.address \notin PlanAddresses

\* the refresh or the show step timed out, could not be started, exited
\* non-zero, or printed what cannot be parsed or compared
DriftStepFailed ==
    \/ drift_outcome.refresh \in {"timeout", "not started", "nonzero"}
    \/ drift_outcome.show \in ShowFailures

\* C13: detect_drift never raises; whenever a step of it fails it returns a
\* DriftResult with has_drift false and empty lists.
C13_DriftFailureIsNoDrift ==
    (pc \in {"drift_returned", "drift_raised"} /\ DriftStepFailed) =>
        /\ pc = "drift_returned"
        /\ drift_result = NoDrift

\* a step of detect_drift timed out or failed and detect_drift fell back to
\* its empty result
DriftFellBack ==
    /\ pc = "drift_returned"
    /\ \/ drift_outcome.refresh = "timeout"
       \/ drift_outcome.show \in {"timeout", "nonzero", "bad json"}

\* what the caller receives from a clean check of a snapshot without changes
CleanNoDrift ==
    detect_drift(DriftOutcome("ok", "ok", <<>>), changes).result

\* C22: a fail-open fallback is observable by the caller: the result received
\* after drift detection timed out or failed differs from the result of a
\* clean drift check that found no drift.
C22_FallbackIsObservable ==
    DriftFellBack => drift_result # CleanNoDrift

(***************************************************************************)
(* SpecDriftRuns: detect_drift called run after run in one Terraform       *)
(* directory. `terraform plan -refresh-only -out=drift.tfplan` writes the  *)
(* file when it succeeds; `terraform show -json drift.tfplan` reads the    *)
(* file that is there.                                                     *)
(***************************************************************************)
RefreshOutcomes == {"ok", "nonzero", "timeout"}

\* what the refresh finds: nothing, or one resource change of SnapKinds
RunSnapshots == {<<>>} \cup {<<k>> : k \in SnapKinds}

InitDriftRuns ==
    /\ pc = "drift_dir"
    /\ changes \in DriftPlans
    /\ drift_outcome = NoOutcome
    /\ engine = DefaultEngine
    /\ base_risk = RiskLOW
    /\ plan_file = PlanOk(<<>>)
    /\ thresholds = [given |-> FALSE, yellow |-> 0, red |-> 0]
    /\ commit_message = ""
    /\ break_glass = FALSE
    /\ shadow_mode = FALSE
    /\ strict_mode = TRUE
    /\ blast_radius = NoBlastRadius
    /\ validation_results = NoValidation
    /\ drift_result = NoDrift
    /\ temporal = NoTemporal
    /\ intent_result = "none"
    /\ should_block = FALSE
    /\ reasons = <<>>
    /\ console_reasons = <<>>
    /\ exit_code = -1
    /\ failed_phase = "none"
    /\ error = ""
    /\ IdleSide
    /\ IdleGatekeeper

\* drift.tfplan after the refresh-only plan step: written when the step
\* succeeds, otherwise the file of an earlier run, if any, stays
AfterRefresh(file, refresh, snapshot) ==
    IF refresh = "ok" THEN [exists |-> TRUE, snapshot |-> snapshot] ELSE file

\* how `terraform show -json drift.tfplan` ends on that file
ShowOf(file) == IF file.exists THEN "ok" ELSE "nonzero"

\* one run of detect_drift in the directory
RunDetectDrift ==
    /\ pc \in {"drift_dir", "drift_run_returned"}
    /\ runs < MaxRuns
    /\ \E refresh \in RefreshOutcomes, snapshot \in RunSnapshots :
        LET file == AfterRefresh(drift_tfplan, refresh, snapshot)
            outcome == DriftOutcome(refresh, ShowOf(file), file.snapshot)
        IN /\ drift_tfplan' = file
           /\ drift_outcome' = outcome
           /\ drift_result' = detect_drift(outcome, changes).result
    /\ runs' = runs + 1
    /\ pc' = "drift_run_returned"
    /\ UNCHANGED <<plan_file, thresholds, break_glass, shadow_mode, strict_mode,
                   commit_message, engine, base_risk, changes, blast_radius,
                   validation_results, temporal, intent_result, decisionVars, gkVars,
                   phase3_warning, error_kind, apply_result, opa_run>>

NextDriftRuns == RunDetectDrift

SpecDriftRuns == InitDriftRuns /\ [][NextDriftRuns]_vars

\* C29: over any sequence of runs in the same Terraform directory, a run
\* whose refresh-only plan step failed reports no drift and no conflicts; it
\* never reports drift read from a drift.tfplan left by an earlier run.
C29_FailedRefreshReportsNoDrift ==
    (pc = "drift_run_returned" /\ drift_outcome.refresh # "ok") =>
        drift_result = NoDrift

(***************************************************************************)
(* SpecTemporal: one call of ContextEngine.analyze_temporal_context.       *)
(***************************************************************************)
RiskLevels == RiskLOW..RiskCRITICAL

\* datetime.now(): weekday() Monday = 0 .. Sunday = 6, and the hour
LocalTimes == (0..6) \X (0..23)

\* engines built with and without weekend blocking, the default and an
\* earlier Friday cutoff, and three after-hours windows: the default, a
\* narrower one across midnight, and one that starts at midnight
TemporalEngines ==
    {ContextEngine(c, wb, w[1], w[2]) :
        c \in {FridayCutoffHour, 12}, wb \in BOOLEAN,
        w \in {<<AfterHoursStart, AfterHoursEnd>>, <<22, 6>>, <<0, 6>>}}

InitTemporal ==
    /\ pc = "temporal_call"
    /\ engine \in TemporalEngines
    /\ base_risk \in RiskLevels
    /\ drift_outcome = NoOutcome
    /\ plan_file = PlanOk(<<>>)
    /\ thresholds = [given |-> FALSE, yellow |-> 0, red |-> 0]
    /\ blast_radius = NoBlastRadius
    /\ validation_results = NoValidation
    /\ should_block = FALSE
    /\ reasons = <<>>
    /\ IdlePipeline
    /\ IdleGatekeeper

CallAnalyzeTemporalContext ==
    /\ pc = "temporal_call"
    /\ \E now \in LocalTimes :
        temporal' = analyze_temporal_context(engine, base_risk, now)
    /\ pc' = "temporal_returned"
    /\ UNCHANGED <<inputVars, changes, blast_radius, validation_results, drift_result,
                   intent_result, decisionVars, gkVars, sideVars>>

NextTemporal == CallAnalyzeTemporalContext

SpecTemporal == InitTemporal /\ [][NextTemporal]_vars

\* how many escalating conditions the returned context reports
EscalatingConditions ==
    (IF engine.weekend_blocking /\ temporal.is_weekend THEN 1 ELSE 0)
    + (IF temporal.is_friday_afternoon THEN 1 ELSE 0)
    + (IF temporal.is_after_hours THEN 1 ELSE 0)

\* C14: the returned risk level is at least the base risk, at most CRITICAL
\* (4), and equal to min(4, base + number of escalating conditions), the
\* weekend counting only when weekend blocking is enabled.
C14_RiskEscalationCapped ==
    pc = "temporal_returned" =>
        /\ temporal.risk_level >= base_risk
        /\ temporal.risk_level <= 4
        /\ temporal.risk_level =
              IF base_risk + EscalatingConditions <= 4
              THEN base_risk + EscalatingConditions ELSE 4

\* C14 witness: base HIGH (3) on a weekend evening with weekend blocking: two
\* escalations, capped at CRITICAL.
C14_Witness ==
    /\ pc = "temporal_returned"
    /\ base_risk = 3
    /\ engine.weekend_blocking
    /\ temporal.is_weekend
    /\ temporal.is_after_hours
    /\ temporal.risk_level = 4

\* hour lies in the window from start (inclusive) to end (exclusive), which
\* wraps across midnight when start is later than end
InWindow(hour, start, end) ==
    IF start > end THEN hour >= start \/ hour < end
    ELSE start <= hour /\ hour < end

\* C21: for every configured pair of after-hours start and end hours and
\* every hour of the day, is_after_hours is true exactly when the hour lies in
\* the window from the start hour (inclusive) to the end hour (exclusive),
\* wrapping across midnight when the start is later than the end.
C21_AfterHoursWindow ==
    pc = "temporal_returned" =>
        (temporal.is_after_hours <=>
            InWindow(temporal.hour, engine.after_hours_start, engine.after_hours_end))

(***************************************************************************)
(* gatekeeper.py: TerraformGatekeeper with the default configuration       *)
(* (drift detection disabled), and ai_analyzer.py                          *)
(***************************************************************************)
\* longest plan handed to gatekeeper.py
MaxGkPlan == 2

\* get_default_config()['protected_resources']
DefaultProtectedResources ==
    {"aws_db_instance", "aws_kms_key", "aws_s3_bucket", "aws_security_group"}

Risk(level, message, resource_type, resource_name) ==
    [level |-> level, message |-> message, resource_type |-> resource_type,
     resource_name |-> resource_name]

NoRisk == Risk("none", "", "", <<>>)

\* filter_changes: the changes whose actions contain delete or update
filter_changes(resource_changes) ==
    FilterSeq(resource_changes,
              {r \in SeqToSet(resource_changes) :
                  "delete" \in r.actions \/ "update" \in r.actions})

\* resource.split('.')[0] if '.' in resource else resource
AddressHead(address) ==
    IF Len(address) > 0 THEN address[1] ELSE ""

\* check_protected_resources: the Risk, or NoRisk for None
check_protected_resources(resource_change, protected_resources) ==
    LET resource_type == AddressHead(resource_change.address) IN
    IF resource_type \in protected_resources /\ "delete" \in resource_change.actions
    THEN Risk("CRITICAL", "Protected resource deletion detected", resource_type,
              resource_change.address)
    ELSE NoRisk

\* check_security_group_risks: the Risk, or NoRisk for None
check_security_group_risks(resource_change) ==
    LET resource_type == IF Len(resource_change.address) > 1
                         THEN resource_change.address[1] ELSE ""
    IN IF resource_type = "aws_security_group" /\ resource_change.after = "open_ingress"
       THEN Risk("SECURITY RISK",
                 "Security group allows unrestricted access (0.0.0.0/0, all ports)",
                 resource_type, resource_change.address)
       ELSE IF resource_type = "aws_security_group" /\ resource_change.after = "open_egress"
       THEN Risk("SECURITY RISK",
                 "Security group allows unrestricted egress (0.0.0.0/0, all ports)",
                 resource_type, resource_change.address)
       ELSE NoRisk

\* one iteration of the loop of analyze_plan (drift_data is None)
AnalyzeStep(st, resource_change) ==
    LET protected_risk == check_protected_resources(resource_change, DefaultProtectedResources)
        security_risk == check_security_group_risks(resource_change)
    IN IF protected_risk # NoRisk
       THEN [risks |-> Append(st.risks, protected_risk),
             critical |-> st.critical \/ protected_risk.level = "CRITICAL"]
       ELSE IF security_risk # NoRisk
       THEN [risks |-> Append(st.risks, security_risk),
             critical |-> st.critical \/ security_risk.level = "CRITICAL"]
       ELSE st

RECURSIVE AnalyzeLoop(_, _)
AnalyzeLoop(st, filtered_changes) ==
    IF filtered_changes = <<>> THEN st
    ELSE AnalyzeLoop(AnalyzeStep(st, Head(filtered_changes)), Tail(filtered_changes))

TimeRuleActive_WeekendOnly(weekday, hour) ==
    weekday >= 5

\* (current_day == 4 and current_time >= time(15, 0)) or current_day >= 5
TimeRuleActive(weekday, hour) ==
    (weekday = 4 /\ hour >= FridayCutoffHour) \/ weekday >= 5

\* apply_time_based_rules on the state [risks, critical]
apply_time_based_rules(st, weekday, hour) ==
    IF TimeRuleActive(weekday, hour)
    THEN [risks |-> [i \in 1..Len(st.risks) |->
                        IF st.risks[i].level = "WARNING"
                        THEN [st.risks[i] EXCEPT !.level = "CRITICAL"]
                        ELSE st.risks[i]],
          critical |-> st.critical \/ \E i \in 1..Len(st.risks) :
                                          st.risks[i].level = "WARNING"]
    ELSE st

CommitMessages == {"", "Update tags", "Remove the old web server"}

\* 'update' in commit_message.lower(), for the messages of CommitMessages
MentionsUpdate(message) == message = "Update tags"

\* 'delete' in plan_changes.lower(): the formatted changes show a delete action
MentionsDelete(filtered_changes) ==
    \E i \in 1..Len(filtered_changes) : "delete" \in filtered_changes[i].actions

\* MockAIProvider.analyze_intent_mismatch
MockIntent(message, filtered_changes) ==
    IF MentionsDelete(filtered_changes) /\ MentionsUpdate(message)
    THEN "MISMATCH: Intent suggests updates but plan shows deletions"
    ELSE "MATCH: Intent matches observed changes"

\* what OpenAIProvider._make_api_call can return for the intent prompt
OpenAIAnswers ==
    {"MATCH", "MISMATCH: the plan deletes resources",
     "AI analysis disabled: API key not configured", "AI analysis error: timeout"}

\* "MISMATCH" in intent_result
ContainsMISMATCH(answer) ==
    answer \in {"MISMATCH: Intent suggests updates but plan shows deletions",
                "MISMATCH: the plan deletes resources"}

\* critical_risks_found after the intent analysis of print_results
IntentEscalation(crf, answer) ==
    IF ContainsMISMATCH(answer) THEN TRUE ELSE crf

GkKinds ==
    {Res(<<"aws_instance", "web">>, "aws_instance", {"create"}, "plain"),
     Res(<<"aws_instance", "web">>, "aws_instance", {"delete"}, "null"),
     Res(<<"aws_db_instance", "main">>, "aws_db_instance", {"delete"}, "null"),
     Res(<<"module", "db", "aws_db_instance", "main">>, "aws_db_instance", {"delete"}, "null"),
     Res(<<"aws_security_group", "sg">>, "aws_security_group", {"update"}, "open_ingress")}

GkPlanFiles ==
    {PlanOk(p) : p \in SeqUpTo(GkKinds, MaxGkPlan)}
        \cup {[status |-> "absent", resource_changes |-> <<>>],
              [status |-> "malformed", resource_changes |-> <<>>]}

\* local (weekday, hour): Wednesday noon, Friday 16h, Sunday 10h
GkTimes == {<<2, 12>>, <<4, 16>>, <<6, 10>>}

InitGatekeeper ==
    /\ pc = "gk_analyze"
    /\ plan_file \in GkPlanFiles
    /\ commit_message \in CommitMessages
    /\ thresholds = [given |-> FALSE, yellow |-> 0, red |-> 0]
    /\ break_glass = FALSE
    /\ shadow_mode = FALSE
    /\ strict_mode = TRUE
    /\ changes = <<>>
    /\ blast_radius = NoBlastRadius
    /\ validation_results = NoValidation
    /\ drift_result = NoDrift
    /\ temporal = NoTemporal
    /\ intent_result = "none"
    /\ should_block = FALSE
    /\ reasons = <<>>
    /\ console_reasons = <<>>
    /\ exit_code = -1
    /\ failed_phase = "none"
    /\ error = ""
    /\ IdleSide
    /\ risks = <<>>
    /\ critical_risks_found = FALSE
    /\ IdleEngine

\* load_plan_file: sys.exit(1) on a missing or invalid plan file
GkLoadFails ==
    /\ pc = "gk_analyze"
    /\ plan_file.status # "ok"
    /\ pc' = "done"
    /\ exit_code' = 1
    /\ failed_phase' = "load_plan_file"
    /\ error' = "plan not loaded"
    /\ UNCHANGED <<inputVars, phaseVars, should_block, reasons, console_reasons, gkVars,
                   sideVars>>

\* analyze_plan(plan_file), ending with apply_time_based_rules
AnalyzePlan ==
    /\ pc = "gk_analyze"
    /\ plan_file.status = "ok"
    /\ \E now \in GkTimes :
        LET filtered_changes == filter_changes(plan_file.resource_changes)
            looped == AnalyzeLoop([risks |-> risks, critical |-> critical_risks_found],
                                  filtered_changes)
            timed == apply_time_based_rules(looped, now[1], now[2])
        IN /\ risks' = timed.risks
           /\ critical_risks_found' = timed.critical
           /\ changes' = filtered_changes
           /\ temporal' = [NoTemporal EXCEPT !.weekday = now[1], !.hour = now[2]]
    /\ pc' = "gk_print"
    /\ UNCHANGED <<inputVars, blast_radius, validation_results, drift_result,
                   intent_result, decisionVars, sideVars>>

\* print_results(commit_message) when there is no risk: it returns, exit 0
PrintNoRisks ==
    /\ pc = "gk_print"
    /\ risks = <<>>
    /\ pc' = "done"
    /\ exit_code' = 0
    /\ UNCHANGED <<inputVars, phaseVars, should_block, reasons, console_reasons,
                   failed_phase, error, gkVars, sideVars>>

\* print_results(commit_message) with risks: the AI analysis when a commit
\* message was given (the mock provider's answer, or any answer of the OpenAI
\* provider; plan.json, which it reloads, being the analysed plan), then
\* sys.exit(1) if critical_risks_found
PrintResults ==
    /\ pc = "gk_print"
    /\ risks # <<>>
    /\ \E answer \in OpenAIAnswers \cup {MockIntent(commit_message, changes)} :
        LET crf == IF commit_message # ""
                   THEN IntentEscalation(critical_risks_found, answer)
                   ELSE critical_risks_found
        IN /\ intent_result' = IF commit_message # "" THEN answer ELSE "none"
           /\ critical_risks_found' = crf
           /\ exit_code' = IF crf THEN 1 ELSE 0
    /\ pc' = "done"
    /\ UNCHANGED <<inputVars, changes, blast_radius, validation_results, drift_result,
                   temporal, should_block, reasons, console_reasons, failed_phase, error, risks,
                   sideVars>>

NextGatekeeper == GkLoadFails \/ AnalyzePlan \/ PrintNoRisks \/ PrintResults

SpecGatekeeper == InitGatekeeper /\ [][NextGatekeeper]_vars

\* the changes of the analysed plan that delete a resource of a protected type
ProtectedDeletes ==
    {i \in 1..Len(plan_file.resource_changes) :
        /\ "delete" \in plan_file.resource_changes[i].actions
        /\ plan_file.resource_changes[i].type \in DefaultProtectedResources}

\* C16: analyze_plan records one CRITICAL risk for each change whose actions
\* include delete and whose resource type is protected, critical_risks_found
\* is true afterwards when there is such a change, and a security-group update
\* opening ingress to 0.0.0.0/0 on all ports in the same plan is still
\* recorded as a SECURITY RISK.
C16_ProtectedDeleteIsCritical ==
    pc = "gk_print" =>
        LET rc == plan_file.resource_changes
            critical == {j \in 1..Len(risks) : risks[j].level = "CRITICAL"}
        IN /\ Cardinality(critical) = Cardinality(ProtectedDeletes)
           /\ \A i \in ProtectedDeletes :
                \E j \in critical : risks[j].resource_name = rc[i].address
           /\ ProtectedDeletes # {} => critical_risks_found
           /\ \A i \in 1..Len(rc) :
                (/\ rc[i].type = "aws_security_group"
                 /\ rc[i].actions = {"update"}
                 /\ rc[i].after = "open_ingress") =>
                    \E j \in 1..Len(risks) :
                        /\ risks[j].level = "SECURITY RISK"
                        /\ risks[j].resource_name = rc[i].address

(***************************************************************************)
(* SpecTimeRules: apply_time_based_rules called on a gatekeeper whose      *)
(* risks were set by the caller.                                           *)
(***************************************************************************)
TimeRuleRisks ==
    {Risk("WARNING", "Unencrypted volume", "aws_ebs_volume", <<"aws_ebs_volume", "data">>),
     Risk("CRITICAL", "Protected resource deletion detected", "aws_db_instance",
          <<"aws_db_instance", "main">>),
     Risk("SECURITY RISK", "Security group allows unrestricted access (0.0.0.0/0, all ports)",
          "aws_security_group", <<"aws_security_group", "sg">>)}

InitTimeRules ==
    /\ pc = "time_rules_call"
    /\ risks \in SeqUpTo(TimeRuleRisks, MaxRisks)
    /\ critical_risks_found \in BOOLEAN
    /\ plan_file = PlanOk(<<>>)
    /\ thresholds = [given |-> FALSE, yellow |-> 0, red |-> 0]
    /\ blast_radius = NoBlastRadius
    /\ validation_results = NoValidation
    /\ should_block = FALSE
    /\ reasons = <<>>
    /\ IdlePipeline
    /\ IdleEngine

\* apply_time_based_rules() when datetime.now() is now
CallApplyTimeBasedRules ==
    /\ pc = "time_rules_call"
    /\ \E now \in LocalTimes :
        LET timed == apply_time_based_rules(
                         [risks |-> risks, critical |-> critical_risks_found],
                         now[1], now[2])
        IN /\ risks' = timed.risks
           /\ critical_risks_found' = timed.critical
           /\ temporal' = [NoTemporal EXCEPT !.weekday = now[1], !.hour = now[2]]
    /\ pc' = "time_rules_returned"
    /\ UNCHANGED <<inputVars, changes, blast_radius, validation_results, drift_result,
                   intent_result, decisionVars, sideVars>>

NextTimeRules == CallApplyTimeBasedRules

SpecTimeRules == InitTimeRules /\ [][NextTimeRules]_vars

\* the call happened on a Friday at or after 15:00 or on a weekend
OnFridayAfternoonOrWeekend(t) ==
    \/ t.weekday = 4 /\ t.hour >= 15
    \/ t.weekday \in {5, 6}

WarningsBefore == {i \in 1..Len(risks) : risks[i].level = "WARNING"}

\* what a call of apply_time_based_rules may change
TimeRulesFrame ==
    (pc = "time_rules_call" /\ pc' = "time_rules_returned") =>
        /\ Len(risks') = Len(risks)
        /\ IF OnFridayAfternoonOrWeekend(temporal')
           THEN /\ \A i \in WarningsBefore :
                      risks'[i] = [risks[i] EXCEPT !.level = "CRITICAL"]
                /\ \A i \in (1..Len(risks)) \ WarningsBefore : risks'[i] = risks[i]
                /\ WarningsBefore # {} => critical_risks_found'
                /\ WarningsBefore = {} => critical_risks_found' = critical_risks_found
           ELSE /\ risks' = risks
                /\ critical_risks_found' = critical_risks_found

\* C26: when apply_time_based_rules runs on a Friday at or after 15:00 or on
\* a weekend, every risk whose level was WARNING has level CRITICAL afterwards
\* and critical_risks_found is true if there was such a risk; at any other
\* time the risks and critical_risks_found are left unchanged.
C26_TimeRulesUpgradeWarnings == [][TimeRulesFrame]_vars

\* C26 witness: after a call on a Friday at 15:00 a risk that was created as
\* a WARNING is CRITICAL and critical_risks_found is true.
C26_Witness ==
    /\ pc = "time_rules_returned"
    /\ temporal.weekday = 4
    /\ temporal.hour = 15
    /\ \E i \in 1..Len(risks) :
          /\ risks[i].message = "Unencrypted volume"
          /\ risks[i].level = "CRITICAL"
    /\ critical_risks_found

(***************************************************************************)
(* SpecGatekeeperReuse: one TerraformGatekeeper object, analyze_plan       *)
(* called on a first plan and then on a second one.                        *)
(***************************************************************************)
InitGatekeeperReuse ==
    /\ InitGatekeeper
    /\ plan_file.status = "ok"
    /\ commit_message = ""

\* analyze_plan(next_plan) on the object that analysed plan_file, within the
\* same hour: self.risks and self.critical_risks_found are what the first
\* call left
AnalyzeNextPlan ==
    /\ pc = "gk_print"
    /\ \E next_plan \in {f \in GkPlanFiles : f.status = "ok"} :
        LET filtered_changes == filter_changes(next_plan.resource_changes)
            looped == AnalyzeLoop([risks |-> risks, critical |-> critical_risks_found],
                                  filtered_changes)
            timed == apply_time_based_rules(looped, temporal.weekday, temporal.hour)
        IN /\ plan_file' = next_plan
           /\ risks' = timed.risks
           /\ critical_risks_found' = timed.critical
           /\ changes' = filtered_changes
    /\ pc' = "gk_analyzed_again"
    /\ UNCHANGED <<thresholds, break_glass, shadow_mode, strict_mode, commit_message,
                   engine, base_risk, drift_outcome, blast_radius, validation_results,
                   drift_result, temporal, intent_result, decisionVars, sideVars>>

NextGatekeeperReuse == AnalyzePlan \/ AnalyzeNextPlan

SpecGatekeeperReuse == InitGatekeeperReuse /\ [][NextGatekeeperReuse]_vars

\* what analyze_plan leaves on a fresh object for the plan in plan_file
AnalysedAlone ==
    apply_time_based_rules(
        AnalyzeLoop([risks |-> <<>>, critical |-> FALSE],
                    filter_changes(plan_file.resource_changes)),
        temporal.weekday, temporal.hour)

\* C15: the findings and the decision for a plan do not depend on a plan
\* evaluated earlier: after analysing a first plan and then a second one with
\* the same gatekeeper object, the risks and critical_risks_found are those of
\* the second plan analysed alone.
C15_NoLeakBetweenPlans ==
    pc = "gk_analyzed_again" =>
        /\ risks = AnalysedAlone.risks
        /\ critical_risks_found = AnalysedAlone.critical

\* C6: an intent mismatch never causes a block by itself: a run with no
\* policy denial, a blast radius that is not RED, no drift conflict and no
\* CRITICAL finding is not blocked (exit code 1), whatever the intent analysis
\* returned.
C6_IntentNeverBlocks ==
    (/\ pc = "done"
     /\ failed_phase = "none"
     /\ calculate_blast_radius(plan_file.resource_changes, thresholds).level # RED
     /\ \A i \in 1..Len(risks) : risks[i].level # "CRITICAL")
        => exit_code # 1

====
